---- MODULE Spec2Model ----
(***************************************************************************)
(* gfx_texture: the two Texture implementations of the repository,         *)
(*   src/src/texture.rs  (Factory API: create_texture_static, ...)  tx_*   *)
(*   src/src/lib.rs      (CreateTexture / UpdateTexture, Encoder)   lib_*  *)
(* driven by one caller that holds at most one Texture, against a          *)
(* recording GPU device (the gfx Factory / Encoder) and an image decoder.  *)
(***************************************************************************)
EXTENDS Integers, Sequences, FiniteSets, TLC

VARIABLES
    gpu,          \* the device's resource behind the caller's Texture, or NoRes
    tex,          \* the Texture value the caller holds, or NoTex
    calls,        \* the device calls the last operation made, in order
    result,       \* how the last operation ended: ok / err / panic
    last,         \* the last operation and its arguments
    createdSize   \* get_size() as read right after the texture was created

vars == <<gpu, tex, calls, result, last, createdSize>>

----------------------------------------------------------------------------
(* Bounds of the enumerated inputs *)

MaxDim == 2       \* small images are 0..MaxDim wide and high

(* Program constants *)

U16 == 65536      \* the modulus of `as u16`

----------------------------------------------------------------------------
(* Values *)

NoRes == [width |-> -1, height |-> -1, format |-> "none", levels |-> 0,
          data |-> <<>>, mipmap |-> 0]
NoTex == [impl |-> "none", filter |-> "none"]
NoImg == [width |-> -1, height |-> -1, data |-> <<>>]
NoSettings == [flip_vertical |-> FALSE, convert_gamma |-> FALSE,
               generate_mipmap |-> FALSE, mag |-> "none"]
NoOp == [op |-> "none", impl |-> "none", img |-> NoImg, settings |-> NoSettings,
         flip |-> "None", path |-> "none", decoded |-> NoImg, handed |-> NoImg,
         offset |-> <<0, 0>>, msg |-> "none"]
NoResult == [kind |-> "none", err |-> <<>>]

Ok == [kind |-> "ok", err |-> <<>>]
Err(e) == [kind |-> "err", err |-> e]
Panic(e) == [kind |-> "panic", err |-> e]

AsU16(n) == n % U16

----------------------------------------------------------------------------
(* Inputs: RGBA images, alpha buffers, settings, paths *)

\* byte k (1-based) of the pattern `seed`: every pixel and channel differs
PatternByte(k, seed) ==
    LET p == (k - 1) \div 4
        c == (k - 1) % 4
    IN  (40 * p + 10 * c + 100 * seed + 1) % 256

RgbaImage(w, h, seed) ==
    [width |-> w, height |-> h,
     data |-> [k \in 1..(4 * w * h) |-> PatternByte(k, seed)]]

\* two pixel patterns per size
Seeds == {0, 1}

SmallImages ==
    { RgbaImage(w, h, s) : w \in 0..MaxDim, h \in 0..MaxDim, s \in Seeds }

\* an image whose width does not fit in 16 bits (it has no rows, so no bytes)
WideEmptyImage == RgbaImage(U16, 0, 0)

Images == SmallImages \cup {WideEmptyImage}

AlphaByte(i, seed) == (60 * i + 100 * seed + 7) % 256

AlphaBuffer(n, seed) == [i \in 1..n |-> AlphaByte(i, seed)]

AlphaBuffers == { AlphaBuffer(n, s) : n \in 0..(MaxDim * MaxDim), s \in Seeds }

Dims == (0..MaxDim) \cup {U16}

Filters == {"Nearest", "Linear"}

TextureSettings ==
    [flip_vertical : BOOLEAN, convert_gamma : BOOLEAN,
     generate_mipmap : BOOLEAN, mag : Filters]

SettingsNew == [flip_vertical |-> FALSE, convert_gamma |-> FALSE,
                generate_mipmap |-> FALSE, mag |-> "Linear"]

Flips == {"None", "Vertical"}

Paths == {"a.png", "missing.png"}

\* what the decoder says when it cannot read or decode a file
DecoderMsgs == {"No such file or directory (os error 2)", "Format error"}

----------------------------------------------------------------------------
(* The GPU device: the contract texture.rs and lib.rs program against.      *)
(* `fail` is the index of the device call the device refuses (0: none).    *)

Zeros(n) == [k \in 1..n |-> 0]

\* a device call as the recording device sees it
Call(fn, w, h, format, data, ok) ==
    [fn |-> fn, width |-> w, height |-> h, format |-> format, data |-> data, ok |-> ok]

\* a freshly allocated 2D resource of one level
Allocate(w, h, format) ==
    [width |-> w, height |-> h, format |-> format, levels |-> 1,
     data |-> Zeros(4 * w * h), mipmap |-> 0]

\* initial contents must cover the w x h extent exactly
DataFits(w, h, data) == Len(data) = 4 * w * h

\* the bytes must cover the region exactly and the region must lie inside
UploadFits(res, x, y, w, h, data) ==
    /\ Len(data) = 4 * w * h
    /\ x + w <= res.width
    /\ y + h <= res.height

\* row-major write of the w*h region at (x, y)
Upload(res, x, y, w, h, data) ==
    [res EXCEPT !.data =
        [k \in 1..Len(res.data) |->
            LET p  == (k - 1) \div 4
                c  == (k - 1) % 4
                px == p % res.width
                py == p \div res.width
            IN  IF px \in x..(x + w - 1) /\ py \in y..(y + h - 1)
                THEN data[4 * ((py - y) * w + (px - x)) + c + 1]
                ELSE res.data[k]]]

GenerateMipmap(res) == [res EXCEPT !.mipmap = @ + 1]

\* the device's error value for a refused call
DeviceError(fits) == IF fits THEN "DeviceError" ELSE "IncorrectSize"

\* format!("{:?}", e)
Debug(e) == <<"{:?}">> \o e

\* what an operation leaves behind
Outcome(cs, r, g, t) == [calls |-> cs, result |-> r, gpu |-> g, tex |-> t]

----------------------------------------------------------------------------
(* src/src/texture.rs *)

TxTexture == [impl |-> "texture.rs", filter |-> "none"]

tx_get_size(res) == <<res.width, res.height>>

tx_format(settings) == IF settings.convert_gamma THEN "SRGB8_A8" ELSE "RGBA8"

\* tx_empty with the placeholder pixel opaque instead of transparent
tx_empty_opaque(fail) ==
    LET res  == Allocate(1, 1, "RGBA8")
        data == <<0, 0, 0, 255>>
        c1   == Call("create_texture_rgba8", 1, 1, "RGBA8", <<>>, fail # 1)
        fits == UploadFits(res, 0, 0, res.width, res.height, data)
        c2   == Call("update_texture", res.width, res.height, res.format, data,
                     fail # 2 /\ fits)
    IN  IF ~c1.ok THEN Outcome(<<c1>>, Err(<<DeviceError(TRUE)>>), NoRes, NoTex)
        ELSE IF ~c2.ok
        THEN Outcome(<<c1, c2>>, Err(<<DeviceError(fits)>>), NoRes, NoTex)
        ELSE Outcome(<<c1, c2>>, Ok,
                     Upload(res, 0, 0, res.width, res.height, data), TxTexture)

tx_empty(fail) ==
    LET res  == Allocate(1, 1, "RGBA8")
        data == <<0, 0, 0, 0>>
        c1   == Call("create_texture_rgba8", 1, 1, "RGBA8", <<>>, fail # 1)
        fits == UploadFits(res, 0, 0, res.width, res.height, data)
        c2   == Call("update_texture", res.width, res.height, res.format, data,
                     fail # 2 /\ fits)
    IN  IF ~c1.ok THEN Outcome(<<c1>>, Err(<<DeviceError(TRUE)>>), NoRes, NoTex)
        ELSE IF ~c2.ok
        THEN Outcome(<<c1, c2>>, Err(<<DeviceError(fits)>>), NoRes, NoTex)
        ELSE Outcome(<<c1, c2>>, Ok,
                     Upload(res, 0, 0, res.width, res.height, data), TxTexture)

tx_from_image(img, settings, fail) ==
    LET width  == AsU16(img.width)
        height == AsU16(img.height)
        format == tx_format(settings)
        fits   == DataFits(width, height, img.data)
        c1     == Call("create_texture_static", width, height, format, img.data,
                       fail # 1 /\ fits)
        res    == [Allocate(width, height, format) EXCEPT !.data = img.data]
        c2     == Call("generate_mipmap", width, height, format, <<>>, TRUE)
    IN  IF ~c1.ok THEN Outcome(<<c1>>, Panic(<<DeviceError(fits)>>), NoRes, NoTex)
        ELSE IF settings.generate_mipmap
        THEN Outcome(<<c1, c2>>, Ok, GenerateMipmap(res), TxTexture)
        ELSE Outcome(<<c1>>, Ok, res, TxTexture)

\* tx_from_memory_alpha with the alpha byte pushed before the three 255s
tx_from_memory_alpha_first(buffer, w, h, fail) ==
    LET width  == IF w = 0 THEN 1 ELSE AsU16(w)
        height == IF h = 0 THEN 1 ELSE AsU16(h)
        pixels == [k \in 1..(4 * Len(buffer)) |->
                      IF (k - 1) % 4 = 0 THEN buffer[((k - 1) \div 4) + 1] ELSE 255]
        res    == Allocate(width, height, "RGBA8")
        c1     == Call("create_texture_rgba8", width, height, "RGBA8", <<>>, fail # 1)
        fits   == UploadFits(res, 0, 0, res.width, res.height, pixels)
        c2     == Call("update_texture", res.width, res.height, res.format, pixels,
                       fail # 2 /\ fits)
    IN  IF ~c1.ok THEN Outcome(<<c1>>, Panic(<<DeviceError(TRUE)>>), NoRes, NoTex)
        ELSE IF ~c2.ok
        THEN Outcome(<<c1, c2>>, Panic(<<DeviceError(fits)>>), NoRes, NoTex)
        ELSE Outcome(<<c1, c2>>, Ok,
                     Upload(res, 0, 0, res.width, res.height, pixels), TxTexture)

tx_from_memory_alpha(buffer, w, h, fail) ==
    LET width  == IF w = 0 THEN 1 ELSE AsU16(w)
        height == IF h = 0 THEN 1 ELSE AsU16(h)
        pixels == [k \in 1..(4 * Len(buffer)) |->
                      IF (k - 1) % 4 = 3 THEN buffer[((k - 1) \div 4) + 1] ELSE 255]
        res    == Allocate(width, height, "RGBA8")
        c1     == Call("create_texture_rgba8", width, height, "RGBA8", <<>>, fail # 1)
        fits   == UploadFits(res, 0, 0, res.width, res.height, pixels)
        c2     == Call("update_texture", res.width, res.height, res.format, pixels,
                       fail # 2 /\ fits)
    IN  IF ~c1.ok THEN Outcome(<<c1>>, Panic(<<DeviceError(TRUE)>>), NoRes, NoTex)
        ELSE IF ~c2.ok
        THEN Outcome(<<c1, c2>>, Panic(<<DeviceError(fits)>>), NoRes, NoTex)
        ELSE Outcome(<<c1, c2>>, Ok,
                     Upload(res, 0, 0, res.width, res.height, pixels), TxTexture)

\* Texture::update and Rgba8Texture::update hand the same call to the device
tx_update_call(res, data, fail) ==
    Call("update_texture", res.width, res.height, res.format, data,
         fail # 1 /\ UploadFits(res, 0, 0, res.width, res.height, data))

\* tx_update that unwraps the device's answer but whose bytes never reach
\* the resource
tx_update_lost(res, t, image, fail) ==
    LET c1 == tx_update_call(res, image.data, fail)
    IN  IF ~c1.ok
        THEN Outcome(<<c1>>,
                     Panic(<<DeviceError(UploadFits(res, 0, 0, res.width, res.height,
                                                    image.data))>>), res, t)
        ELSE Outcome(<<c1>>, Ok, res, t)

tx_update(res, t, image, fail) ==
    LET c1 == tx_update_call(res, image.data, fail)
    IN  IF ~c1.ok
        THEN Outcome(<<c1>>,
                     Panic(<<DeviceError(UploadFits(res, 0, 0, res.width, res.height,
                                                    image.data))>>), res, t)
        ELSE Outcome(<<c1>>, Ok,
                     Upload(res, 0, 0, res.width, res.height, image.data), t)

tx_from_memory(memory, size, settings, fail) ==
    LET width  == AsU16(size[1])
        height == AsU16(size[2])
        format == tx_format(settings)
        fits   == DataFits(width, height, memory)
        c1     == Call("create_texture_static", width, height, format, memory,
                       fail # 1 /\ fits)
        res    == [Allocate(width, height, format) EXCEPT !.data = memory]
        c2     == Call("generate_mipmap", width, height, format, <<>>, TRUE)
    IN  IF ~c1.ok
        THEN Outcome(<<c1>>, Err(<<"FactoryError">> \o Debug(<<DeviceError(fits)>>)), NoRes, NoTex)
        ELSE IF settings.generate_mipmap
        THEN Outcome(<<c1, c2>>, Ok, GenerateMipmap(res), TxTexture)
        ELSE Outcome(<<c1>>, Ok, res, TxTexture)

tx_update_memory(res, t, memory, fail) ==
    LET c1 == tx_update_call(res, memory, fail)
    IN  IF ~c1.ok
        THEN Outcome(<<c1>>,
                     Err(<<"FactoryError">> \o
                         Debug(<<DeviceError(UploadFits(res, 0, 0, res.width,
                                                        res.height, memory))>>)),
                     res, t)
        ELSE Outcome(<<c1>>, Ok,
                     Upload(res, 0, 0, res.width, res.height, memory), t)

\* image::open(path).map_err(|e| e.to_string()), then to_rgba: `decoded` is the
\* RGBA image the decoder produced, `msg` its message when it failed (decoded = NoImg)
tx_from_path(decoded, msg, settings, fail) ==
    IF decoded = NoImg
    THEN Outcome(<<>>, Err(<<msg>>), NoRes, NoTex)
    ELSE tx_from_image(decoded, settings, fail)

\* the image from_path hands to from_image
tx_from_path_handed(decoded, settings) == decoded

----------------------------------------------------------------------------
(* src/src/lib.rs *)

lib_get_size(res) == <<res.width, res.height>>

\* the FilterMethod of the sampler, from settings.get_mag()
lib_filter_method(settings) ==
    IF settings.mag = "Nearest" THEN "Scale" ELSE "Bilinear"

\* CreateTexture::create: the surface is always created as Srgba8
lib_texture_format(settings) == "Srgba8"

\* lib_create without the try! around view_texture_as_shader_resource
lib_create_no_try(memory, size, settings, fail) ==
    LET width  == AsU16(size[1])
        height == AsU16(size[2])
        format == "Srgba8"
        filter == IF settings.mag = "Nearest" THEN "Scale" ELSE "Bilinear"
        fits   == DataFits(width, height, memory)
        c1     == Call("create_texture_raw", width, height, format, memory,
                       fail # 1 /\ fits)
        res    == [Allocate(width, height, format) EXCEPT !.data = memory]
        c2     == Call("view_texture_as_shader_resource", width, height, format,
                       <<>>, fail # 2)
        c3     == Call("create_sampler", width, height, filter, <<>>, TRUE)
    IN  IF ~c1.ok
        THEN Outcome(<<c1>>, Err(<<"CombinedError", DeviceError(fits)>>), NoRes, NoTex)
        ELSE Outcome(<<c1, c2, c3>>, Ok, res, [impl |-> "lib.rs", filter |-> filter])

lib_create(memory, size, settings, fail) ==
    LET width  == AsU16(size[1])
        height == AsU16(size[2])
        format == lib_texture_format(settings)
        filter == lib_filter_method(settings)
        fits   == DataFits(width, height, memory)
        c1     == Call("create_texture_raw", width, height, format, memory,
                       fail # 1 /\ fits)
        res    == [Allocate(width, height, format) EXCEPT !.data = memory]
        c2     == Call("view_texture_as_shader_resource", width, height, format,
                       <<>>, fail # 2)
        c3     == Call("create_sampler", width, height, filter, <<>>, TRUE)
    IN  IF ~c1.ok
        THEN Outcome(<<c1>>, Err(<<"CombinedError", DeviceError(fits)>>), NoRes, NoTex)
        ELSE IF ~c2.ok
        THEN Outcome(<<c1, c2>>, Err(<<"CombinedError", DeviceError(TRUE)>>),
                     NoRes, NoTex)
        ELSE Outcome(<<c1, c2, c3>>, Ok, res, [impl |-> "lib.rs", filter |-> filter])

lib_empty(fail) == lib_create(<<0, 0, 0, 0>>, <<1, 1>>, SettingsNew, fail)

lib_from_image(img, settings, fail) ==
    lib_create(img.data, <<img.width, img.height>>, settings, fail)

\* image::imageops::flip_vertical: row y of the result is row height-1-y
flip_vertical(img) ==
    [img EXCEPT !.data =
        [k \in 1..Len(img.data) |->
            LET p == (k - 1) \div 4
                c == (k - 1) % 4
                x == p % img.width
                y == p \div img.width
            IN  img.data[4 * ((img.height - 1 - y) * img.width + x) + c + 1]]]

\* the image from_path hands to from_image
lib_from_path_handed(decoded, flip) ==
    IF flip = "Vertical" THEN flip_vertical(decoded) ELSE decoded

lib_from_path(decoded, msg, flip, settings, fail) ==
    IF decoded = NoImg
    THEN Outcome(<<>>, Err(<<msg>>), NoRes, NoTex)
    ELSE LET o == lib_from_image(lib_from_path_handed(decoded, flip), settings, fail)
         IN  IF o.result.kind = "err"
             THEN [o EXCEPT !.result = Err(Debug(o.result.err))]
             ELSE o

\* texture::ops::alpha_to_rgba8 for a buffer of size[1] * size[2] bytes
alpha_to_rgba8(buffer, size) ==
    [k \in 1..(4 * size[1] * size[2]) |->
        IF (k - 1) % 4 = 3 THEN buffer[((k - 1) \div 4) + 1] ELSE 255]

lib_from_memory_alpha(buffer, w, h, settings, fail) ==
    IF w = 0 \/ h = 0
    THEN lib_empty(fail)
    ELSE lib_create(alpha_to_rgba8(buffer, <<w, h>>), <<w, h>>, settings, fail)

\* Encoder::update_texture: nothing to do for no data; else the texels must
\* cover the region and the region must lie inside the texture (UpdateError
\* otherwise).  The encoder only checks and records: it refuses nothing else.
EncoderUpdateOk(res, x, y, w, h, data) ==
    \/ Len(data) = 0
    \/ UploadFits(res, x, y, w, h, data)

lib_update_texture(res, t, memory, offset, size) ==
    LET x    == AsU16(offset[1])
        y    == AsU16(offset[2])
        w    == AsU16(size[1])
        h    == AsU16(size[2])
        data == SubSeq(memory, 1, 4 * (Len(memory) \div 4))
        ok   == EncoderUpdateOk(res, x, y, w, h, data)
        c1   == Call("update_texture", w, h, "Rgba8", data, ok)
    IN  IF Len(data) = 0 THEN Outcome(<<>>, Ok, res, t)
        ELSE IF ~ok THEN Outcome(<<c1>>, Err(<<"UpdateError">>), res, t)
        ELSE Outcome(<<c1>>, Ok, Upload(res, x, y, w, h, data), t)

lib_update(res, t, img) ==
    lib_update_texture(res, t, img.data, <<0, 0>>, <<img.width, img.height>>)

----------------
(* The caller: creates a texture when it holds none, updates the one it    *)
(* holds, and lets go of what the last call returned (the texture or the   *)
(* error) before it creates again.  A panic ends the program.              *)

NoSize == <<-1, -1>>

Init ==
    /\ gpu = NoRes
    /\ tex = NoTex
    /\ calls = <<>>
    /\ result = NoResult
    /\ last = NoOp
    /\ createdSize = NoSize

Running == result.kind # "panic"

\* the caller holds nothing: no texture, no result of an earlier call
Idle == tex = NoTex /\ result = NoResult

\* the state after a creation operation with outcome o
Created(o, l, size) ==
    /\ calls' = o.calls
    /\ result' = o.result
    /\ gpu' = o.gpu
    /\ tex' = o.tex
    /\ last' = l
    /\ createdSize' = IF o.result.kind = "ok" THEN size ELSE NoSize

\* the state after an update operation with outcome o
Updated(o, l) ==
    /\ calls' = o.calls
    /\ result' = o.result
    /\ gpu' = o.gpu
    /\ tex' = o.tex
    /\ last' = l
    /\ UNCHANGED createdSize

Raw(w, h, data) == [width |-> w, height |-> h, data |-> data]

\* the buffer holds exactly w * h bytes
Covers(buffer, w, h) == w <= Len(buffer) /\ h <= Len(buffer) /\ Len(buffer) = w * h

\* the sizes a caller passes with the bytes of image m: its own, one whose
\* width or height exceeds 16 bits by it, and a wrong one
Sizes(m) ==
    { <<m.width, m.height>>, <<m.width + U16, m.height>>,
      <<m.width, m.height + U16>>, <<m.width + 1, m.height>> }

\* the images a caller updates the texture res with: those of its size, and
\* one smaller, one larger and one wide one
UpdateImages(res) ==
    { i \in Images : i.width = res.width /\ i.height = res.height }
        \cup { RgbaImage(1, 1, 0), RgbaImage(MaxDim, MaxDim, 0), WideEmptyImage }

\* the decoder's answers: an RGBA image with pixels, or a message
Decodes ==
    { <<i, "none">> : i \in { j \in SmallImages : j.width >= 1 /\ j.height >= 1 } }
        \cup { <<NoImg, m>> : m \in DecoderMsgs }

TxEmpty ==
    /\ Idle
    /\ \E fail \in 0..2 :
        LET o == tx_empty(fail)
        IN  Created(o, [NoOp EXCEPT !.op = "empty", !.impl = "texture.rs"],
                    tx_get_size(o.gpu))

TxFromPath ==
    /\ Idle
    /\ \E path \in Paths, d \in Decodes, settings \in TextureSettings, fail \in 0..1 :
        LET o == tx_from_path(d[1], d[2], settings, fail)
        IN  Created(o, [NoOp EXCEPT !.op = "from_path", !.impl = "texture.rs",
                                    !.path = path, !.decoded = d[1], !.msg = d[2],
                                    !.settings = settings,
                                    !.flip = IF settings.flip_vertical
                                             THEN "Vertical" ELSE "None",
                                    !.handed = IF d[1] = NoImg THEN NoImg
                                               ELSE tx_from_path_handed(d[1], settings)],
                    tx_get_size(o.gpu))

TxFromImage ==
    /\ Idle
    /\ \E img \in Images, settings \in TextureSettings, fail \in 0..1 :
        LET o == tx_from_image(img, settings, fail)
        IN  Created(o, [NoOp EXCEPT !.op = "from_image", !.impl = "texture.rs",
                                    !.img = img, !.settings = settings],
                    tx_get_size(o.gpu))

TxFromMemoryAlpha ==
    /\ Idle
    /\ \E buffer \in AlphaBuffers, w \in Dims, h \in Dims, fail \in 0..2 :
        LET o == tx_from_memory_alpha(buffer, w, h, fail)
        IN  Created(o, [NoOp EXCEPT !.op = "from_memory_alpha", !.impl = "texture.rs",
                                    !.img = Raw(w, h, buffer)],
                    tx_get_size(o.gpu))

TxFromMemory ==
    /\ Idle
    /\ \E m \in SmallImages, settings \in TextureSettings, fail \in 0..1 :
      \E size \in Sizes(m) :
        LET o == tx_from_memory(m.data, size, settings, fail)
        IN  Created(o, [NoOp EXCEPT !.op = "from_memory", !.impl = "texture.rs",
                                    !.img = Raw(size[1], size[2], m.data),
                                    !.settings = settings],
                    tx_get_size(o.gpu))

TxUpdate ==
    /\ Running /\ tex.impl = "texture.rs"
    /\ \E image \in UpdateImages(gpu), fail \in 0..1 :
        Updated(tx_update(gpu, tex, image, fail),
                [NoOp EXCEPT !.op = "update", !.impl = "texture.rs", !.img = image])

TxUpdateMemory ==
    /\ Running /\ tex.impl = "texture.rs"
    /\ \E m \in UpdateImages(gpu), fail \in 0..1 :
        Updated(tx_update_memory(gpu, tex, m.data, fail),
                [NoOp EXCEPT !.op = "update_memory", !.impl = "texture.rs", !.img = m])

LibEmpty ==
    /\ Idle
    /\ \E fail \in 0..2 :
        LET o == lib_empty(fail)
        IN  Created(o, [NoOp EXCEPT !.op = "empty", !.impl = "lib.rs"],
                    lib_get_size(o.gpu))

LibFromPath ==
    /\ Idle
    /\ \E path \in Paths, d \in Decodes, flip \in Flips,
          settings \in TextureSettings, fail \in 0..2 :
        LET o == lib_from_path(d[1], d[2], flip, settings, fail)
        IN  Created(o, [NoOp EXCEPT !.op = "from_path", !.impl = "lib.rs",
                                    !.path = path, !.decoded = d[1], !.msg = d[2],
                                    !.settings = settings, !.flip = flip,
                                    !.handed = IF d[1] = NoImg THEN NoImg
                                               ELSE lib_from_path_handed(d[1], flip)],
                    lib_get_size(o.gpu))

LibFromImage ==
    /\ Idle
    /\ \E img \in Images, settings \in TextureSettings, fail \in 0..2 :
        LET o == lib_from_image(img, settings, fail)
        IN  Created(o, [NoOp EXCEPT !.op = "from_image", !.impl = "lib.rs",
                                    !.img = img, !.settings = settings],
                    lib_get_size(o.gpu))

LibFromMemoryAlpha ==
    /\ Idle
    /\ \E buffer \in AlphaBuffers, w \in Dims, h \in Dims,
          settings \in TextureSettings, fail \in 0..2 :
        /\ w = 0 \/ h = 0 \/ Covers(buffer, w, h)
        /\ LET o == lib_from_memory_alpha(buffer, w, h, settings, fail)
           IN  Created(o, [NoOp EXCEPT !.op = "from_memory_alpha", !.impl = "lib.rs",
                                       !.img = Raw(w, h, buffer), !.settings = settings],
                       lib_get_size(o.gpu))

LibCreate ==
    /\ Idle
    /\ \E m \in SmallImages, settings \in TextureSettings, fail \in 0..2 :
      \E size \in Sizes(m) :
        LET o == lib_create(m.data, size, settings, fail)
        IN  Created(o, [NoOp EXCEPT !.op = "create", !.impl = "lib.rs",
                                    !.img = Raw(size[1], size[2], m.data),
                                    !.settings = settings],
                    lib_get_size(o.gpu))

LibUpdate ==
    /\ Running /\ tex.impl = "lib.rs"
    /\ \E img \in UpdateImages(gpu) :
        Updated(lib_update(gpu, tex, img),
                [NoOp EXCEPT !.op = "update", !.impl = "lib.rs", !.img = img])

LibUpdateTexture ==
    /\ Running /\ tex.impl = "lib.rs"
    /\ \E m \in {RgbaImage(1, 1, 1)}, x \in 0..1, y \in 0..1 :
        Updated(lib_update_texture(gpu, tex, m.data, <<x, y>>,
                                   <<m.width, m.height>>),
                [NoOp EXCEPT !.op = "update_texture", !.impl = "lib.rs", !.img = m,
                             !.offset = <<x, y>>])

\* the caller lets go of its texture or of the error it got; the device
\* releases the resource
Drop ==
    /\ Running /\ ~Idle
    /\ gpu' = NoRes
    /\ tex' = NoTex
    /\ calls' = <<>>
    /\ result' = NoResult
    /\ last' = NoOp
    /\ createdSize' = NoSize

Next ==
    \/ TxEmpty
    \/ TxFromPath
    \/ TxFromImage
    \/ TxFromMemoryAlpha
    \/ TxFromMemory
    \/ TxUpdate
    \/ TxUpdateMemory
    \/ LibEmpty
    \/ LibFromPath
    \/ LibFromImage
    \/ LibFromMemoryAlpha
    \/ LibCreate
    \/ LibUpdate
    \/ LibUpdateTexture
    \/ Drop

Spec == Init /\ [][Next]_vars

----------------------------------------------------------------------------
(* What the claims read off a state *)

\* get_size() of the texture the caller holds
HeldSize == IF tex.impl = "lib.rs" THEN lib_get_size(gpu) ELSE tx_get_size(gpu)

CreateFns == {"create_texture_rgba8", "create_texture_static", "create_texture_raw"}
UploadFns == {"update_texture", "create_texture_static", "create_texture_raw"}

CreateCalls == { i \in 1..Len(calls) : calls[i].fn \in CreateFns }
UploadCalls == { i \in 1..Len(calls) : calls[i].fn \in UploadFns }
MipmapCalls == { i \in 1..Len(calls) : calls[i].fn = "generate_mipmap" }
RefusedCalls == { i \in 1..Len(calls) : ~calls[i].ok }

CreationOps == {"empty", "from_path", "from_image", "from_memory_alpha",
                "from_memory", "create"}

IsSrgb(format) == format \in {"SRGB8_A8", "Srgba8"}

Elems(seq) == { seq[i] : i \in 1..Len(seq) }

\* d is b with every alpha byte expanded to [255, 255, 255, alpha]
Expanded(d, b) ==
    /\ Len(d) = 4 * Len(b)
    /\ \A i \in 1..Len(b) :
        /\ d[4 * i - 3] = 255
        /\ d[4 * i - 2] = 255
        /\ d[4 * i - 1] = 255
        /\ d[4 * i] = b[i]

----------------------------------------------------------------------------
(* C1: from_image of a W x H image asks the device for a W x H texture and  *)
(* the texture it returns reports get_size() = (W, H), for every u32 W, H. *)
C1_FromImageSizeExact ==
    last.op = "from_image" =>
        /\ \A i \in CreateCalls :
            calls[i].width = last.img.width /\ calls[i].height = last.img.height
        /\ result.kind = "ok" => HeldSize = <<last.img.width, last.img.height>>

(* C2: from_memory_alpha with width = 0 or height = 0 does not panic (unless *)
(* the device itself refuses a call) and never asks the device for a        *)
(* resource with a zero dimension.                                          *)
C2_DegenerateAlphaSafe ==
    (last.op = "from_memory_alpha" /\ (last.img.width = 0 \/ last.img.height = 0)) =>
        /\ result.kind = "panic" => result.err = <<"DeviceError">>
        /\ \A i \in CreateCalls : calls[i].width >= 1 /\ calls[i].height >= 1

(* C3: for a buffer of exactly W * H bytes, W, H >= 1, the data that         *)
(* from_memory_alpha uploads is the buffer with every byte b expanded to    *)
(* the pixel [255, 255, 255, b], in the buffer's order, 4 * W * H bytes.    *)
C3_AlphaExpansion ==
    (last.op = "from_memory_alpha" /\ last.img.width >= 1 /\ last.img.height >= 1
        /\ Covers(last.img.data, last.img.width, last.img.height)) =>
        /\ \A i \in UploadCalls :
            /\ Expanded(calls[i].data, last.img.data)
            /\ Len(calls[i].data) = 4 * last.img.width * last.img.height
        /\ result.kind = "ok" =>
            UploadCalls # {} /\ Expanded(gpu.data, last.img.data)

C3_Witness ==
    /\ last.op = "from_memory_alpha" /\ last.impl = "texture.rs"
    /\ last.img.width = 2 /\ last.img.height = 2 /\ Len(last.img.data) = 4
    /\ result.kind = "ok"

(* C4: a creation operation that takes settings passes the sRGB format to   *)
(* the device exactly when settings.convert_gamma is set.                   *)
C4_GammaSelectsFormat ==
    (last.op \in {"from_image", "from_memory", "create", "from_path"}) =>
        \A i \in CreateCalls :
            IsSrgb(calls[i].format) <=> last.settings.convert_gamma

(* C5: from_path on a file the decoder cannot read or decode returns an     *)
(* error that carries the path and the decoder's message, calls the device  *)
(* not at all and returns no texture.                                       *)
C5_DecodeErrorCarriesPath ==
    (last.op = "from_path" /\ last.decoded = NoImg) =>
        /\ result.kind = "err"
        /\ last.path \in Elems(result.err)
        /\ last.msg \in Elems(result.err)
        /\ calls = <<>>
        /\ tex = NoTex /\ gpu = NoRes

(* C6: while the caller holds a texture, get_size() stays what it was right *)
(* after creation, and every update with an image of the texture's width    *)
(* and height that returns to the caller returns Ok, has allocated nothing, *)
(* has uploaded the image's bytes to the full extent, and leaves the        *)
(* texture holding exactly those bytes.                                     *)
C6_UpdateKeepsSizeReplacesContents ==
    /\ tex # NoTex => HeldSize = createdSize
    /\ (last.op = "update" /\ result.kind # "panic"
            /\ <<last.img.width, last.img.height>> = HeldSize) =>
        /\ result.kind = "ok"
        /\ gpu.data = last.img.data
        /\ CreateCalls = {}
        /\ \A i \in UploadCalls :
            /\ calls[i].data = last.img.data
            /\ <<calls[i].width, calls[i].height>> = HeldSize

C6_Witness ==
    /\ last.op = "update" /\ result.kind = "ok"
    /\ last.img.width = 2 /\ last.img.height = 2
    /\ HeldSize = <<2, 2>> /\ createdSize = <<2, 2>>
    /\ gpu.data = last.img.data

(* C7: empty asks the device for a 1 x 1 texture and uploads the four bytes *)
(* 0, 0, 0, 0; the texture it returns has size (1, 1) and holds them.       *)
C7_EmptyIsOneTransparentPixel ==
    last.op = "empty" =>
        /\ \A i \in CreateCalls : calls[i].width = 1 /\ calls[i].height = 1
        /\ \A i \in UploadCalls : calls[i].data = <<0, 0, 0, 0>>
        /\ result.kind = "ok" =>
            /\ UploadCalls # {}
            /\ HeldSize = <<1, 1>>
            /\ gpu.data = <<0, 0, 0, 0>>

C7_Witness ==
    last.op = "empty" /\ result.kind = "ok" /\ tex # NoTex /\ Len(calls) >= 2

(* C8: from_path hands from_image the decoded image flipped vertically when *)
(* the flip_vertical flag is set, and the decoded image itself otherwise.   *)
C8_FromPathFlipsIffFlag ==
    (last.op = "from_path" /\ last.decoded # NoImg) =>
        LET flag     == IF last.impl = "texture.rs" THEN last.settings.flip_vertical
                        ELSE last.flip = "Vertical"
            expected == IF flag THEN flip_vertical(last.decoded) ELSE last.decoded
        IN  /\ last.handed = expected
            /\ \A i \in UploadCalls : calls[i].data = expected.data

(* C9: when the device refuses a call of a creation operation, the           *)
(* operation ends in an error or a panic, the caller gets no texture, and   *)
(* the refused call is the last one the operation made.                     *)
C9_FailedCreationReturnsNoTexture ==
    (last.op \in CreationOps /\ RefusedCalls # {}) =>
        /\ result.kind \in {"err", "panic"}
        /\ tex = NoTex /\ gpu = NoRes
        /\ RefusedCalls = {Len(calls)}

C9_Witness ==
    /\ last.op \in CreationOps /\ last.impl = "lib.rs"
    /\ Len(calls) = 2 /\ ~calls[2].ok /\ calls[1].ok
    /\ result.kind = "err"

(* C10: from_image and from_memory request generate_mipmap exactly when      *)
(* settings.generate_mipmap is set, once, after the texture was created     *)
(* with its contents; update never requests it.                             *)
C10_MipmapIffRequested ==
    /\ (last.op \in {"from_image", "from_memory"} /\ result.kind = "ok") =>
        /\ Cardinality(MipmapCalls) = IF last.settings.generate_mipmap THEN 1 ELSE 0
        /\ \A i \in MipmapCalls : \E j \in 1..(i - 1) :
            calls[j].fn \in CreateFns /\ calls[j].ok
    /\ (last.op \in CreationOps /\ result.kind # "ok") => MipmapCalls = {}
    /\ last.op \in {"update", "update_memory", "update_texture"} => MipmapCalls = {}

====
